---- MODULE Spec2Model ----
(***************************************************************************)
(* A model of s3consistency.py: the five consistency probes, the threaded  *)
(* runner run_test, the campaign in main and the clean mode clean_up,      *)
(* running against an S3 gateway that is consistent, or stale in one of    *)
(* two ways, and that may raise faults.                                    *)
(***************************************************************************)
EXTENDS Integers, Sequences, FiniteSets, TLC

VARIABLES
    args,          \* the parsed command line: iterations, threads, chunk_size, clean
    gwMode,        \* how the gateway answers reads
    faultAt,       \* which gateway call of the run raises a fault (0: none)
    ncalls,        \* how many gateway calls were issued
    objects,       \* the bucket: key -> [cur, prev, last]
    mainpc,        \* where the main thread is
    probe,         \* index in ProbeOrder of the probe run_test is running (0: none)
    wk,            \* run_test's threads: worker -> its locals and status
    started,       \* how many threads the start loop has started
    joined,        \* how many threads the join loop has joined
    errors,        \* run_test's list of the counts the workers returned
    test_results,  \* main's list of (name, error count)
    logrows,       \* the rows run_test logged
    report,        \* the rows of the summary main printed
    response,      \* clean_up: the listed keys not yet deleted
    runs,          \* how many times the program was invoked
    deleted,       \* delete calls clean_up made in this invocation
    deletedLog,    \* per finished clean invocation, the delete calls it made
    before,        \* the live keys when the current run_test began
    launched,      \* per probe, how many threads were started
    faulted        \* per probe, how many workers died of an exception

vars == <<args, gwMode, faultAt, ncalls, objects, mainpc, probe, wk, started, joined,
          errors, test_results, logrows, report, response, runs, deleted,
          deletedLog, before, launched, faulted>>

(* ------------------------------- bounds -------------------------------- *)
\* --iterations and --threads range over -1 .. MaxIterations and -1 .. MaxThreads,
\* with iterations * threads <= MaxWork; the gateway raises a fault on one call
\* among its first MaxFaultAt, or on none; the bucket starts with up to MaxPre
\* objects; the clean mode is run up to MaxRuns times in succession.
MaxIterations == 2
MaxThreads == 2
MaxFaultAt == 8
MaxPre == 1
MaxRuns == 2
MaxWork == 4

(* ------------------------------- sizes --------------------------------- *)
\* A byte count n is held as [g, r] with n = g * GiB + r and 0 <= r < GiB, so
\* that the 5 GiB ceiling and a size one above it stay inside TLC's integers.
GiB == 1073741824

Sz(g, r) == [g |-> g, r |-> r]

SizeGT(a, b) == a.g > b.g \/ (a.g = b.g /\ a.r > b.r)

SizeInc(a) == IF a.r + 1 = GiB THEN Sz(a.g + 1, 0) ELSE Sz(a.g, a.r + 1)

\* max_chunk_size = 5 * 1024 * 1024 * 1024
max_chunk_size == Sz(5, 0)

\* len(bytes([0] * n)): a list repeated a negative number of times is empty
BodyLen(n) == IF n.g < 0 THEN Sz(0, 0) ELSE n

\* the command line's --chunk-size values tried: -2, 1 (the default), 5 GiB + 1
ChunkSizes == {Sz(-1, GiB - 2), Sz(0, 1), Sz(5, 1)}

(* ------------------------------ gateway -------------------------------- *)
Absent == [live |-> FALSE, len |-> Sz(0, 0)]

Body(n) == [live |-> TRUE, len |-> n]

GwModes == {"consistent", "sticky", "lagging"}

\* What a read shows of an object: its current version; or its last written
\* body even after a delete (deletes never become visible); or the version
\* before its latest put or delete (always one write behind).
View(o) ==
    CASE gwMode = "consistent" -> o.cur
      [] gwMode = "sticky" -> o.last
      [] gwMode = "lagging" -> o.prev

GwPut(objs, k, n) ==
    IF k \in DOMAIN objs
    THEN [objs EXCEPT ![k] = [cur |-> Body(n), prev |-> objs[k].cur, last |-> Body(n)]]
    ELSE [x \in DOMAIN objs \cup {k} |->
            IF x = k THEN [cur |-> Body(n), prev |-> Absent, last |-> Body(n)]
            ELSE objs[x]]

GwDelete(objs, k) ==
    IF k \in DOMAIN objs
    THEN [objs EXCEPT ![k] = [cur |-> Absent, prev |-> objs[k].cur, last |-> objs[k].last]]
    ELSE objs

GwGet(objs, k) == IF k \in DOMAIN objs THEN View(objs[k]) ELSE Absent

GwList(objs) == {k \in DOMAIN objs : View(objs[k]).live}

\* the keys of the objects the bucket really holds
Live == {k \in DOMAIN objects : objects[k].cur.live}

PreKey(n) == <<0, 0, n>>

(* ------------------------------ program -------------------------------- *)
\* mutant: the campaign runs read_after_create first
ProbeOrderSwapped == <<"read_after_create", "read_after_delete", "read_after_overwrite",
                       "list_after_create", "list_after_delete">>

ProbeOrder == <<"read_after_delete", "read_after_create", "read_after_overwrite",
                "list_after_create", "list_after_delete">>

fn == ProbeOrder[probe]

\* len(range(n)) and len of a list comprehension over range(n)
RangeLen(n) == IF n > 0 THEN n ELSE 0

RECURSIVE sum(_)
sum(s) == IF s = <<>> THEN 0 ELSE Head(s) + sum(Tail(s))

NoWorker == [status |-> "created", pc |-> 1, i |-> 0, count |-> 0, total |-> 0,
             key |-> PreKey(0), calls |-> 0]

Init ==
    /\ args \in [iterations : -1 .. MaxIterations, threads : -1 .. MaxThreads,
                 chunk_size : ChunkSizes, clean : BOOLEAN]
    /\ args.iterations * args.threads <= MaxWork
    /\ gwMode \in GwModes
    /\ faultAt \in 0 .. MaxFaultAt
    /\ ncalls = 0
    /\ \E n \in 0 .. MaxPre :
         objects = [k \in {PreKey(j) : j \in 1 .. n} |->
                      [cur |-> Body(Sz(0, 1)), prev |-> Body(Sz(0, 1)), last |-> Body(Sz(0, 1))]]
    /\ mainpc = "start"
    /\ probe = 0
    /\ wk = <<>>
    /\ started = 0
    /\ joined = 0
    /\ errors = <<>>
    /\ test_results = <<>>
    /\ logrows = <<>>
    /\ report = <<>>
    /\ response = {}
    /\ runs = 1
    /\ deleted = 0
    /\ deletedLog = <<>>
    /\ before = {}
    /\ launched = [p \in 1 .. 5 |-> 0]
    /\ faulted = [p \in 1 .. 5 |-> 0]

mainVars == <<mainpc, probe, started, joined, test_results, logrows, report,
              response, runs, deleted, deletedLog, before, launched>>

(* ------------------------------- main ---------------------------------- *)
\* main, lines 154-172: clamp the chunk size, then clean mode or the campaign
ParseArgs ==
    /\ mainpc = "start"
    /\ args' = [args EXCEPT !.chunk_size =
                  IF SizeGT(@, max_chunk_size) THEN max_chunk_size ELSE @]
    /\ IF args.clean
       THEN mainpc' = "clean_list" /\ probe' = 0
       ELSE mainpc' = "run_test" /\ probe' = 1
    /\ test_results' = <<>>
    /\ UNCHANGED <<gwMode, faultAt, ncalls, objects, wk, started, joined, errors,
                   logrows, report, response, runs, deleted, deletedLog, before,
                   launched, faulted>>


(* ------------------------------ run_test ------------------------------- *)
\* run_test, lines 123-127: the empty errors list and the list of Thread
\* objects, one per element of range(threads)
RunTestBegin ==
    /\ mainpc = "run_test"
    /\ errors' = <<>>
    /\ wk' = [w \in 1 .. RangeLen(args.threads) |-> NoWorker]
    /\ started' = 0
    /\ joined' = 0
    /\ before' = Live
    /\ mainpc' = IF RangeLen(args.threads) = 0 THEN "aggregate" ELSE "start_threads"
    /\ UNCHANGED <<args, gwMode, faultAt, ncalls, objects, probe, test_results, logrows,
                   report, response, runs, deleted, deletedLog, launched, faulted>>

\* run_test, lines 128-129: thread.start() of the next thread of the list
StartThread ==
    /\ mainpc = "start_threads"
    /\ started < Len(wk)
    /\ wk' = [wk EXCEPT ![started + 1].status = "running"]
    /\ started' = started + 1
    /\ launched' = [launched EXCEPT ![probe] = @ + 1]
    /\ mainpc' = IF started + 1 = Len(wk) THEN "join" ELSE "start_threads"
    /\ UNCHANGED <<args, gwMode, faultAt, ncalls, objects, probe, joined, errors,
                   test_results, logrows, report, response, runs, deleted,
                   deletedLog, before, faulted>>

\* mutant: the join loop takes a thread for over only once its target returned
TerminatedOnlyDone(w) == wk[w].status = "done"

\* mutant: join returns at once, whatever its thread is doing
TerminatedAlways(w) == TRUE

\* a thread is over when its target returned or died of an exception
Terminated(w) == wk[w].status \in {"done", "faulted"}

\* run_test, lines 130-131: thread.join() returns once that thread is over
JoinThread ==
    /\ mainpc = "join"
    /\ joined < Len(wk)
    /\ Terminated(joined + 1)
    /\ joined' = joined + 1
    /\ mainpc' = IF joined + 1 = Len(wk) THEN "aggregate" ELSE "join"
    /\ UNCHANGED <<args, gwMode, faultAt, ncalls, objects, probe, wk, started, errors,
                   test_results, logrows, report, response, runs, deleted,
                   deletedLog, before, launched, faulted>>

\* run_test, line 133
\* mutant: the total is the count of the worker that finished last
err_countLast == IF errors = <<>> THEN 0 ELSE errors[Len(errors)]

err_count == sum(errors)

\* mutant: the attempts are counted from the workers that returned a count
AttemptedOfReturned == args.iterations * Len(errors)

\* run_test, lines 134-135: the denominator of err_pct and the logged count
Attempted == args.iterations * Len(wk)

\* the row run_test logs, line 135
LogRow == [name |-> fn, attempted |-> Attempted, errors |-> err_count]

\* mutant: the campaign stops at the first probe that found a violation
AggregateFailsOnErrors ==
    /\ mainpc = "aggregate"
    /\ IF Attempted = 0 \/ err_count > 0
       THEN /\ mainpc' = "crashed"
            /\ UNCHANGED <<probe, test_results, logrows>>
       ELSE /\ logrows' = Append(logrows, LogRow)
            /\ test_results' = Append(test_results, <<fn, err_count>>)
            /\ IF probe < Len(ProbeOrder)
               THEN mainpc' = "run_test" /\ probe' = probe + 1
               ELSE mainpc' = "summary" /\ probe' = probe
    /\ UNCHANGED <<args, gwMode, faultAt, ncalls, objects, wk, started, joined, errors,
                   report, response, runs, deleted, deletedLog, before, launched,
                   faulted>>

\* run_test, lines 133-137, and main's append of what it returns, lines 175-179.
\* The division of line 134 raises ZeroDivisionError on a zero denominator:
\* nothing catches it and main dies.
Aggregate ==
    /\ mainpc = "aggregate"
    /\ IF Attempted = 0
       THEN /\ mainpc' = "crashed"
            /\ UNCHANGED <<probe, test_results, logrows>>
       ELSE /\ logrows' = Append(logrows, LogRow)
            /\ test_results' = Append(test_results, <<fn, err_count>>)
            /\ IF probe < Len(ProbeOrder)
               THEN mainpc' = "run_test" /\ probe' = probe + 1
               ELSE mainpc' = "summary" /\ probe' = probe
    /\ UNCHANGED <<args, gwMode, faultAt, ncalls, objects, wk, started, joined, errors,
                   report, response, runs, deleted, deletedLog, before, launched,
                   faulted>>

\* main, line 186
total_iterations == args.iterations * args.threads

\* main, lines 185-188: one printed row per collected result
SummaryRow(r) == [name |-> r[1], attempted |-> total_iterations, errors |-> r[2]]

\* main, lines 181-188: the summary table; line 187 divides by total_iterations
Summary ==
    /\ mainpc = "summary"
    /\ IF total_iterations = 0
       THEN mainpc' = "crashed" /\ report' = report
       ELSE /\ report' = [j \in 1 .. Len(test_results) |-> SummaryRow(test_results[j])]
            /\ mainpc' = "done"
    /\ UNCHANGED <<args, gwMode, faultAt, ncalls, objects, probe, wk, started, joined,
                   errors, test_results, logrows, response, runs, deleted,
                   deletedLog, before, launched, faulted>>

\* mutant: the key is drawn without regard to the thread drawing it
uuid4Shared(w) == <<probe, 1, wk[w].i>>

(* ------------------------------ workers -------------------------------- *)
\* uuid.uuid4(), line 42: a key no other call returns, named by the call
uuid4(w) == <<probe, w, wk[w].i>>

Running(w) ==
    /\ mainpc \in {"start_threads", "join"}
    /\ w \in DOMAIN wk
    /\ wk[w].status = "running"

\* range(iterations) of the probe's for loop still yields an element
InLoop(w) == wk[w].i < args.iterations

\* A gateway call of worker w returned: the bucket is objs2, the worker adds
\* viol to its count and goes on at statement nextpc of the loop body;
\* nextpc = 0 is the end of the body, where total += 1 and the loop continues.
Call(w, objs2, k, viol, nextpc) ==
    /\ ncalls + 1 # faultAt
    /\ objects' = objs2
    /\ wk' = [wk EXCEPT ![w] =
                [status |-> "running",
                 pc |-> IF nextpc = 0 THEN 1 ELSE nextpc,
                 i |-> IF nextpc = 0 THEN @.i + 1 ELSE @.i,
                 count |-> @.count + viol,
                 total |-> IF nextpc = 0 THEN @.total + 1 ELSE @.total,
                 key |-> k,
                 calls |-> @.calls + 1]]
    /\ ncalls' = ncalls + 1
    /\ UNCHANGED <<args, gwMode, faultAt, errors, faulted>>
    /\ UNCHANGED mainVars

\* mutant: the probe catches every exception of a gateway call, counts it as a
\* violation and goes on with its next iteration
RaiseCounted(w) ==
    /\ wk' = [wk EXCEPT ![w].count = @ + 1, ![w].pc = 1, ![w].i = @ + 1,
                        ![w].total = @ + 1, ![w].calls = @ + 1]
    /\ faulted' = [faulted EXCEPT ![probe] = @ + 1]
    /\ ncalls' = ncalls + 1
    /\ UNCHANGED <<args, gwMode, faultAt, objects, errors>>
    /\ UNCHANGED mainVars

\* mutant: a dying worker still hands in what it had counted
RaiseAppendsPartial(w) ==
    /\ wk' = [wk EXCEPT ![w].status = "faulted", ![w].calls = @ + 1]
    /\ faulted' = [faulted EXCEPT ![probe] = @ + 1]
    /\ ncalls' = ncalls + 1
    /\ errors' = Append(errors, wk[w].count)
    /\ UNCHANGED <<args, gwMode, faultAt, objects>>
    /\ UNCHANGED mainVars

\* An exception leaves fn and target: the thread dies, errors gets no entry
\* (line 125 never completes), and the thread's excepthook prints a traceback.
Raise(w) ==
    /\ wk' = [wk EXCEPT ![w].status = "faulted", ![w].calls = @ + 1]
    /\ faulted' = [faulted EXCEPT ![probe] = @ + 1]
    /\ ncalls' = ncalls + 1
    /\ UNCHANGED <<args, gwMode, faultAt, objects, errors>>
    /\ UNCHANGED mainVars

\* create_random_file, lines 40-46
create_random_file(w, chunk_size, key, nextpc) ==
    Call(w, GwPut(objects, key, BodyLen(chunk_size)), key, 0, nextpc)

\* list_after_delete, lines 48-62
list_after_delete(w) ==
    LET key == wk[w].key IN
    \/ /\ wk[w].pc = 1 /\ InLoop(w)
       /\ create_random_file(w, args.chunk_size, uuid4(w), 2)
    \/ /\ wk[w].pc = 2
       /\ Call(w, GwDelete(objects, key), key, 0, 3)
    \/ /\ wk[w].pc = 3
       /\ LET found == key \in GwList(objects)
          IN  Call(w, objects, key, IF found THEN 1 ELSE 0, 0)

\* mutant: the iteration ends after the listing and leaves its delete undone
list_after_create_nodelete(w) ==
    LET key == wk[w].key IN
    \/ /\ wk[w].pc = 1 /\ InLoop(w)
       /\ create_random_file(w, args.chunk_size, uuid4(w), 2)
    \/ /\ wk[w].pc = 2
       /\ LET found == key \in GwList(objects)
          IN  Call(w, objects, key, IF ~found THEN 1 ELSE 0, 0)

\* list_after_create, lines 64-77
list_after_create(w) ==
    LET key == wk[w].key IN
    \/ /\ wk[w].pc = 1 /\ InLoop(w)
       /\ create_random_file(w, args.chunk_size, uuid4(w), 2)
    \/ /\ wk[w].pc = 2
       /\ LET found == key \in GwList(objects)
          IN  Call(w, objects, key, IF ~found THEN 1 ELSE 0, 3)
    \/ /\ wk[w].pc = 3
       /\ Call(w, GwDelete(objects, key), key, 0, 0)

\* read_after_overwrite, lines 79-92. NoSuchKey from line 85 is not caught.
read_after_overwrite(w) ==
    LET key == wk[w].key IN
    \/ /\ wk[w].pc = 1 /\ InLoop(w)
       /\ create_random_file(w, args.chunk_size, uuid4(w), 2)
    \/ /\ wk[w].pc = 2
       /\ create_random_file(w, SizeInc(args.chunk_size), key, 3)
    \/ /\ wk[w].pc = 3
       /\ LET body == GwGet(objects, key)
          IN  IF body.live
              THEN Call(w, objects, key,
                        IF body.len # SizeInc(args.chunk_size) THEN 1 ELSE 0, 4)
              ELSE Raise(w)
    \/ /\ wk[w].pc = 4
       /\ Call(w, GwDelete(objects, key), key, 0, 0)

\* read_after_delete, lines 94-107
read_after_delete(w) ==
    LET key == wk[w].key IN
    \/ /\ wk[w].pc = 1 /\ InLoop(w)
       /\ create_random_file(w, args.chunk_size, uuid4(w), 2)
    \/ /\ wk[w].pc = 2
       /\ Call(w, GwDelete(objects, key), key, 0, 3)
    \/ /\ wk[w].pc = 3
       /\ LET body == GwGet(objects, key)
          IN  Call(w, objects, key, IF body.live THEN 1 ELSE 0, 0)

\* mutant: the NoSuchKey branch counts the violation and skips the delete
read_after_create_leaky(w) ==
    LET key == wk[w].key IN
    \/ /\ wk[w].pc = 1 /\ InLoop(w)
       /\ create_random_file(w, args.chunk_size, uuid4(w), 2)
    \/ /\ wk[w].pc = 2
       /\ LET body == GwGet(objects, key)
          IN  IF ~body.live THEN Call(w, objects, key, 1, 0)
              ELSE Call(w, objects, key, 0, 3)
    \/ /\ wk[w].pc = 3
       /\ Call(w, GwDelete(objects, key), key, 0, 0)

\* read_after_create, lines 109-120
read_after_create(w) ==
    LET key == wk[w].key IN
    \/ /\ wk[w].pc = 1 /\ InLoop(w)
       /\ create_random_file(w, args.chunk_size, uuid4(w), 2)
    \/ /\ wk[w].pc = 2
       /\ LET body == GwGet(objects, key)
          IN  Call(w, objects, key, IF ~body.live THEN 1 ELSE 0, 3)
    \/ /\ wk[w].pc = 3
       /\ Call(w, GwDelete(objects, key), key, 0, 0)

\* a step of worker w inside fn, the probe main passed to run_test
ProbeStep(w) ==
    /\ Running(w)
    /\ CASE fn = "read_after_delete" -> read_after_delete(w)
         [] fn = "read_after_create" -> read_after_create(w)
         [] fn = "read_after_overwrite" -> read_after_overwrite(w)
         [] fn = "list_after_create" -> list_after_create(w)
         [] fn = "list_after_delete" -> list_after_delete(w)

\* The gateway call worker w is about to make is the one that raises, and what
\* it raises is not NoSuchKey (a botocore ClientError, a timeout): no probe
\* catches it.
GatewayFault(w) ==
    /\ Running(w)
    /\ wk[w].pc # 1 \/ InLoop(w)
    /\ ncalls + 1 = faultAt
    /\ Raise(w)

\* mutant: a worker gives up and returns once a sibling has died
ReturnOnSiblingFault(w) ==
    /\ Running(w)
    /\ wk[w].pc = 1 /\ (~InLoop(w) \/ faulted[probe] > 0)
    /\ errors' = Append(errors, wk[w].count)
    /\ wk' = [wk EXCEPT ![w].status = "done"]
    /\ UNCHANGED <<args, gwMode, faultAt, ncalls, objects, faulted>>
    /\ UNCHANGED mainVars

\* the probe's loop is over: fn returns count and target appends it, line 125
Return(w) ==
    /\ Running(w)
    /\ wk[w].pc = 1 /\ ~InLoop(w)
    /\ errors' = Append(errors, wk[w].count)
    /\ wk' = [wk EXCEPT ![w].status = "done"]
    /\ UNCHANGED <<args, gwMode, faultAt, ncalls, objects, faulted>>
    /\ UNCHANGED mainVars

(* ----------------------------- clean mode ------------------------------ *)
\* clean_up, line 140
CleanList ==
    /\ mainpc = "clean_list"
    /\ ncalls + 1 # faultAt
    /\ response' = GwList(objects)
    /\ ncalls' = ncalls + 1
    /\ mainpc' = "clean_delete"
    /\ UNCHANGED <<args, gwMode, faultAt, objects, probe, wk, started, joined,
                   errors, test_results, logrows, report, runs, deleted, deletedLog,
                   before, launched, faulted>>

\* mutant: the delete call names the listing entry, not its key, so that the
\* gateway finds no such object and deletes nothing
CleanDeleteWrongKey ==
    /\ mainpc = "clean_delete"
    /\ response # {}
    /\ ncalls + 1 # faultAt
    /\ ncalls' = ncalls + 1
    /\ LET key == CHOOSE k \in response : TRUE
       IN  /\ objects' = GwDelete(objects, <<key>>)
           /\ response' = response \ {key}
    /\ deleted' = deleted + 1
    /\ UNCHANGED <<args, gwMode, faultAt, mainpc, probe, wk, started, joined,
                   errors, test_results, logrows, report, runs, deletedLog, before,
                   launched, faulted>>

\* clean_up, lines 141-143: the delete of the next listed object
CleanDelete ==
    /\ mainpc = "clean_delete"
    /\ response # {}
    /\ ncalls + 1 # faultAt
    /\ ncalls' = ncalls + 1
    /\ LET key == CHOOSE k \in response : TRUE
       IN  /\ objects' = GwDelete(objects, key)
           /\ response' = response \ {key}
    /\ deleted' = deleted + 1
    /\ UNCHANGED <<args, gwMode, faultAt, mainpc, probe, wk, started, joined,
                   errors, test_results, logrows, report, runs, deletedLog, before,
                   launched, faulted>>

\* clean_up returns and main returns, lines 169-170
CleanReturn ==
    /\ mainpc = "clean_delete"
    /\ response = {}
    /\ deletedLog' = Append(deletedLog, deleted)
    /\ mainpc' = "done"
    /\ UNCHANGED <<args, gwMode, faultAt, ncalls, objects, probe, wk, started, joined,
                   errors, test_results, logrows, report, response, runs, deleted,
                   before, launched, faulted>>

\* a gateway call of clean_up raises: nothing catches it and main dies
CleanFault ==
    /\ mainpc = "clean_list" \/ (mainpc = "clean_delete" /\ response # {})
    /\ ncalls + 1 = faultAt
    /\ ncalls' = ncalls + 1
    /\ mainpc' = "crashed"
    /\ UNCHANGED <<args, gwMode, faultAt, objects, probe, wk, started, joined, errors,
                   test_results, logrows, report, response, runs, deleted,
                   deletedLog, before, launched, faulted>>

\* the operator runs the clean mode again with the same command line
CleanAgain ==
    /\ mainpc = "done"
    /\ args.clean
    /\ runs < MaxRuns
    /\ runs' = runs + 1
    /\ deleted' = 0
    /\ mainpc' = "start"
    /\ UNCHANGED <<args, gwMode, faultAt, ncalls, objects, probe, wk, started, joined,
                   errors, test_results, logrows, report, response, deletedLog,
                   before, launched, faulted>>

(* --------------------------- specification ----------------------------- *)
Next ==
    \/ ParseArgs
    \/ RunTestBegin
    \/ StartThread
    \/ JoinThread
    \/ Aggregate
    \/ Summary
    \/ \E w \in 1 .. MaxThreads : ProbeStep(w)
    \/ \E w \in 1 .. MaxThreads : GatewayFault(w)
    \/ \E w \in 1 .. MaxThreads : Return(w)
    \/ CleanList
    \/ CleanDelete
    \/ CleanReturn
    \/ CleanFault
    \/ CleanAgain

Spec == Init /\ [][Next]_vars

\* the runs in which no gateway call raises, or only the first one does
FairInit == Init /\ faultAt <= 1

\* the interpreter runs main and every started thread: each keeps taking its
\* next step while it has one (the operator's second run of clean is not owed).
FairSpec ==
    /\ FairInit
    /\ [][Next]_vars
    /\ WF_vars(ParseArgs \/ RunTestBegin \/ StartThread \/ JoinThread
                  \/ Aggregate \/ Summary)
    /\ WF_vars(CleanList \/ CleanDelete \/ CleanReturn \/ CleanFault)
    /\ \A w \in 1 .. MaxThreads :
          WF_vars(ProbeStep(w) \/ GatewayFault(w) \/ Return(w))

(* ------------------------------- claims -------------------------------- *)
ValidCounts == args.iterations >= 1 /\ args.threads >= 1

AnyFault == \E p \in 1 .. 5 : faulted[p] > 0

\* C1: against a consistent gateway, with iterations >= 1 and threads >= 1,
\* every probe run through run_test returns a violation count of 0, whatever
\* the interleaving of the workers.
C1_ConsistentReportsZero ==
    (gwMode = "consistent" /\ ValidCounts)
        => \A j \in 1 .. Len(test_results) : test_results[j][2] = 0

\* C1, for the chunk sizes whose two bodies differ in length (chunk_size >= 0):
\* there the consistent gateway yields count 0 in every probe and interleaving.
C1_ZeroForNonNegativeChunk ==
    (gwMode = "consistent" /\ ValidCounts /\ args.chunk_size.g >= 0)
        => /\ \A j \in 1 .. Len(test_results) : test_results[j][2] = 0
           /\ \A w \in DOMAIN wk : wk[w].count = 0

\* C2: against a gateway whose get after delete returns the last written body
\* and that raises no fault, run_test on read_after_delete returns
\* iterations * threads.
C2_StaleReadAfterDeleteCountsAll ==
    (gwMode \in {"sticky", "lagging"} /\ faulted[1] = 0 /\ Len(test_results) >= 1)
        => test_results[1][2] = args.iterations * args.threads

\* C2, for iterations >= 1 and threads >= 1
C2_CountsAllForValidCounts ==
    (gwMode \in {"sticky", "lagging"} /\ faulted[1] = 0 /\ Len(test_results) >= 1
     /\ ValidCounts)
        => test_results[1][2] = args.iterations * args.threads

\* the rows run_test can log for probe p when every worker returns its count
CompleteRows(p) ==
    {[name |-> ProbeOrder[p], attempted |-> args.iterations * RangeLen(args.threads),
      errors |-> e] : e \in 0 .. args.iterations * RangeLen(args.threads)}

\* C3: the result run_test produces for a probe in which a worker died of a
\* gateway fault differs from every result of a run whose workers all finished
\* (it carries a mark of being incomplete).
C3_FaultMarksIncomplete ==
    \A p \in 1 .. Len(logrows) :
        faulted[p] > 0 => logrows[p] \notin CompleteRows(p)

\* C4: after a gateway fault in a worker, main never dies, it can always take
\* its next step until the campaign is done, and the finished campaign has
\* started all the threads of each of the five probes and reports five rows.
C4_FaultDoesNotStopCampaign ==
    AnyFault =>
        /\ mainpc # "crashed"
        /\ mainpc # "done" => ENABLED Next
        /\ mainpc = "done" =>
              /\ Len(report) = 5
              /\ Len(test_results) = 5
              /\ \A p \in 1 .. 5 : launched[p] = args.threads

C4_Witness ==
    /\ mainpc = "done"
    /\ faulted[1] > 0
    /\ Len(report) = 5
    /\ args.threads = 2

\* C5: a step in which a gateway call of a probe raises a fault adds nothing
\* to any count nor to errors and only kills the worker that made the call;
\* a worker so killed makes no further call and no further iteration.
C5_FaultNotCountedAndAborts ==
    [][ /\ (ncalls' = faultAt /\ ncalls < faultAt /\ ~args.clean) =>
              /\ errors' = errors
              /\ objects' = objects
              /\ \A w \in DOMAIN wk :
                    /\ wk'[w].count = wk[w].count
                    /\ wk'[w].i = wk[w].i
                    /\ wk'[w] # wk[w] => wk'[w].status = "faulted"
        /\ \A w \in DOMAIN wk :
              (wk[w].status = "faulted" /\ mainpc # "run_test") => wk'[w] = wk[w]
      ]_vars

C5_Witness ==
    /\ mainpc = "aggregate"
    /\ \E w \in DOMAIN wk :
          /\ wk[w].status = "faulted"
          /\ wk[w].count = 1
          /\ wk[w].i = 1
          /\ wk[w].i < args.iterations
          /\ wk[w].calls < ncalls
    /\ Len(wk) = 2
    /\ errors = <<2>>

\* C6: every row run_test logs and every row of the summary gives
\* iterations * threads as its attempted count, whatever the probes counted.
C6_AttemptedIsIterationsTimesThreads ==
    /\ \A j \in 1 .. Len(logrows) :
          logrows[j].attempted = args.iterations * args.threads
    /\ \A j \in 1 .. Len(report) :
          report[j].attempted = args.iterations * args.threads

C6_Witness ==
    /\ Len(report) = 5
    /\ Len(logrows) = 5
    /\ faulted[1] > 0
    /\ args.iterations = 2 /\ args.threads = 2
    /\ report[1].errors = 2
    /\ report[5].errors = 4

\* C7: whatever the gateway does, every count run_test returns satisfies
\* 0 <= count <= iterations * threads.
C7_ViolationsWithinAttempted ==
    \A j \in 1 .. Len(test_results) :
        /\ 0 <= test_results[j][2]
        /\ test_results[j][2] <= args.iterations * args.threads

\* C7, for iterations >= 1 and threads >= 1
C7_WithinAttemptedForValidCounts ==
    ValidCounts =>
        /\ \A j \in 1 .. Len(test_results) :
              /\ 0 <= test_results[j][2]
              /\ test_results[j][2] <= args.iterations * args.threads
        /\ \A w \in DOMAIN wk :
              /\ wk[w].count <= wk[w].i + (IF wk[w].pc = 1 THEN 0 ELSE 1)
              /\ wk[w].i <= args.iterations

\* the keys held by the workers of this probe that died of an exception
AbortedKeys == {wk[w].key : w \in {v \in DOMAIN wk : wk[v].status = "faulted"}}

C10_BadCountsRejected ==
    (~args.clean /\ (args.iterations <= 0 \/ args.threads <= 0))
        => /\ \A p \in 1 .. 5 : launched[p] = 0
           /\ ncalls = 0

\* every body the gateway holds or held as a version of some key
PutSizes ==
    {objects[k].cur.len : k \in DOMAIN objects} \cup
    {objects[k].prev.len : k \in DOMAIN objects} \cup
    {objects[k].last.len : k \in DOMAIN objects}

\* C11: no body put to the gateway is longer than max_chunk_size (5 GiB),
\* whatever --chunk-size was given and in every probe.
C11_PayloadWithinCeiling == \A n \in PutSizes : ~SizeGT(n, max_chunk_size)

\* C11, for the first put of every iteration (create_random_file with the
\* clamped chunk size): only read_after_overwrite's second put goes above.
C11_FirstPutWithinCeiling ==
    /\ ~SizeGT(args.chunk_size, max_chunk_size) \/ mainpc = "start"
    /\ \A n \in PutSizes :
          SizeGT(n, max_chunk_size) => n = SizeInc(max_chunk_size)
    /\ \A k \in DOMAIN objects :
          SizeGT(objects[k].last.len, max_chunk_size) => k[1] = 3

\* the probe whose threads wk holds: the one before, until run_test begins
WkProbe == IF mainpc = "run_test" THEN probe - 1 ELSE probe

\* the names of the five probes in campaign order
CampaignOrder == <<"read_after_delete", "read_after_create", "read_after_overwrite",
                   "list_after_create", "list_after_delete">>

\* C12: the probes run one at a time in the order read_after_delete,
\* read_after_create, read_after_overwrite, list_after_create,
\* list_after_delete with the same arguments: the rows collected, logged and
\* printed are in that order, the probe whose threads run is the one after the
\* last row, every earlier probe started all its threads, no thread of an
\* earlier probe is still running when a probe begins, and the arguments do
\* not change once parsed.
C12_ProbesInFixedOrder ==
    [][ /\ mainpc # "start" => args' = args
        /\ \A j \in 1 .. Len(test_results') : test_results'[j][1] = CampaignOrder[j]
        /\ \A j \in 1 .. Len(logrows') : logrows'[j].name = CampaignOrder[j]
        /\ \A j \in 1 .. Len(report') : report'[j].name = CampaignOrder[j]
        /\ ncalls' # ncalls /\ ~args.clean =>
              /\ Len(test_results) = probe - 1
              /\ fn = CampaignOrder[probe]
              /\ \A q \in 1 .. probe - 1 : launched[q] = RangeLen(args.threads)
              /\ \A k \in DOMAIN objects' :
                    (k \notin DOMAIN objects \/ objects'[k] # objects[k]) => k[1] = probe
        /\ mainpc' = "run_test" =>
              \A w \in DOMAIN wk' : wk'[w].status \in {"done", "faulted"}
      ]_vars

C12_Witness ==
    /\ mainpc = "done"
    /\ Len(report) = 5
    /\ report[1].name = "read_after_delete"
    /\ report[5].name = "list_after_delete"
    /\ args.threads = 2 /\ args.iterations = 2
    /\ \A q \in 1 .. 5 : launched[q] = 2
    /\ \A q \in 1 .. 5 : \E k \in DOMAIN objects : k[1] = q

\* the keys generated during probe p
KeysOf(p) == {k \in DOMAIN objects : k[1] = p}

\* C13: when the threads of a probe are joined and none died, exactly
\* iterations * threads distinct keys were generated in it.
C13_KeysAreIterationsTimesThreads ==
    (mainpc = "aggregate" /\ faulted[probe] = 0)
        => Cardinality(KeysOf(probe)) = args.iterations * args.threads

\* C13, for iterations >= 1 and threads >= 1: one key per iteration of each
\* worker, the second put of read_after_overwrite included.
C13_KeysForValidCounts ==
    (ValidCounts /\ mainpc = "aggregate" /\ faulted[probe] = 0)
        => /\ Cardinality(KeysOf(probe)) = args.iterations * args.threads
           /\ KeysOf(probe) = {<<probe, w, i>> : w \in 1 .. args.threads,
                                                 i \in 0 .. args.iterations - 1}

\* C14: with iterations >= 1, threads >= 1 and no gateway call raising, the
\* campaign eventually completes and prints a report of exactly five rows,
\* whatever the violation counts.
C14_CampaignCompletes ==
    (ValidCounts /\ ~args.clean /\ faultAt = 0)
        ~> (mainpc = "done" /\ Len(report) = 5)

C14_Witness ==
    /\ ValidCounts /\ ~args.clean /\ faultAt = 0
    /\ mainpc = "done" /\ Len(report) = 5
    /\ args.threads = 2
    /\ \A j \in 1 .. 5 : report[j].errors > 0

\* C15: run_test computes and logs its result only when every thread it
\* started is over (returned or died): while a row of the probe whose threads
\* wk holds exists, or is about to be computed, no thread is created or running.
C15_ReportOnlyAfterAllTerminated ==
    (mainpc = "aggregate" \/ (WkProbe >= 1 /\ Len(logrows) >= WkProbe))
        => /\ joined = Len(wk)
           /\ Len(wk) = RangeLen(args.threads)
           /\ \A w \in DOMAIN wk : wk[w].status \in {"done", "faulted"}

C15_Witness ==
    /\ mainpc = "run_test"
    /\ Len(logrows) = WkProbe /\ WkProbe = 2
    /\ Len(wk) = 2
    /\ wk[1].status = "faulted" /\ wk[2].status = "done"

\* what each worker of wk has handed to errors: its count once it returned
ReturnedCounts ==
    [w \in 1 .. Len(wk) |-> IF wk[w].status = "done" THEN wk[w].count ELSE 0]

\* C16: the total of run_test is the sum of the counts of the workers that
\* returned, each appended exactly once, in whatever order they finished.
C16_TotalIsSumOfReturnedCounts ==
    /\ err_count = sum(ReturnedCounts)
    /\ Len(errors) = Cardinality({w \in DOMAIN wk : wk[w].status = "done"})
    /\ \A j \in 1 .. Len(errors) :
          \E w \in DOMAIN wk : wk[w].status = "done" /\ wk[w].count = errors[j]
    /\ (WkProbe >= 1 /\ Len(test_results) >= WkProbe)
          => test_results[WkProbe][2] = sum(ReturnedCounts)

C16_Witness ==
    /\ mainpc = "run_test"
    /\ Len(test_results) = WkProbe /\ WkProbe = 1
    /\ Len(wk) = 2
    /\ wk[1].status = "done" /\ wk[2].status = "done"
    /\ wk[1].count = 2 /\ wk[2].count = 2
    /\ test_results[1][2] = 4

\* C17: a worker that dies takes no sibling with it: a worker returns only
\* after all its iterations, every worker left running after a sibling died
\* still has a step to take, and when the threads are joined every worker
\* that did not die has returned and handed in its count.
C17_FaultLeavesSiblingsWhole ==
    /\ \A w \in DOMAIN wk :
          /\ wk[w].status = "done" =>
                /\ wk[w].i = RangeLen(args.iterations)
                /\ wk[w].total = RangeLen(args.iterations)
          /\ (Running(w) /\ faulted[probe] > 0) =>
                ENABLED (ProbeStep(w) \/ GatewayFault(w) \/ Return(w))
    /\ mainpc = "aggregate" =>
          /\ \A w \in DOMAIN wk : wk[w].status # "faulted" => wk[w].status = "done"
          /\ Len(errors) = Len(wk) - faulted[probe]

C17_Witness ==
    /\ mainpc = "aggregate"
    /\ Len(wk) = 2 /\ args.iterations = 2
    /\ wk[1].status = "faulted" /\ wk[1].i = 0
    /\ wk[2].status = "done" /\ wk[2].i = 2 /\ wk[2].count = 2
    /\ wk[2].calls > wk[1].calls
    /\ errors = <<2>>

\* the keys of worker w, in the probe its thread belongs to, that the bucket holds
LiveOf(w) == {k \in Live : k[1] = WkProbe /\ k[2] = w}

\* C18: the iterations of one worker do not overlap: the bucket holds at most
\* one key of a worker at any time, the key of the iteration it is in, and
\* none of its earlier iterations' keys; between two iterations of a running
\* worker it holds none.
C18_IterationsAreSequential ==
    \A w \in DOMAIN wk :
        /\ LiveOf(w) \subseteq {<<WkProbe, w, wk[w].i>>}
        /\ (wk[w].pc = 1 /\ wk[w].status # "faulted") => LiveOf(w) = {}
        /\ \A k \in DOMAIN objects :
              (k[1] = WkProbe /\ k[2] = w) => k[3] <= wk[w].i

C18_Witness ==
    \E w \in DOMAIN wk :
        /\ wk[w].status = "running" /\ wk[w].i = 1 /\ wk[w].pc > 1
        /\ LiveOf(w) = {<<probe, w, 1>>}
        /\ <<probe, w, 0>> \in DOMAIN objects

\* C19: the count of a worker that died is in no total: the row run_test logs
\* and the row main prints carry the sum of the counts of the workers that
\* returned, over the full iterations * threads attempts.
C19_AbortedCountNotInTotal ==
    /\ \A w \in DOMAIN wk :
          (wk[w].status = "faulted" /\ mainpc = "aggregate")
              => err_count = sum([v \in 1 .. Len(wk) |->
                                    IF v = w THEN 0 ELSE ReturnedCounts[v]])
    /\ (WkProbe >= 1 /\ Len(logrows) >= WkProbe) =>
          /\ logrows[WkProbe].errors = sum(ReturnedCounts)
          /\ logrows[WkProbe].attempted = args.iterations * args.threads
    /\ (WkProbe >= 1 /\ Len(report) >= WkProbe) =>
          /\ report[WkProbe].errors = sum(ReturnedCounts)
          /\ report[WkProbe].attempted = args.iterations * args.threads

C19_Witness ==
    /\ mainpc = "run_test"
    /\ Len(logrows) = WkProbe /\ WkProbe >= 1
    /\ Len(wk) = 2 /\ args.iterations = 2
    /\ wk[1].status = "faulted" /\ wk[1].count = 1
    /\ wk[2].status = "done" /\ wk[2].count = 2
    /\ logrows[WkProbe].errors = 2
    /\ logrows[WkProbe].attempted = 4

\* the key worker w put in the iteration it is in
OwnKey(w) == <<probe, w, wk[w].i>>

\* what the probe named f makes of the gateway's answer o about a key at its
\* reading statement: 1 for a violation, 0 for none
Verdict(f, o) ==
    CASE f = "read_after_delete" -> IF o.live THEN 1 ELSE 0
      [] f = "read_after_create" -> IF o.live THEN 0 ELSE 1
      [] f = "read_after_overwrite" ->
            IF o.len # SizeInc(args.chunk_size) THEN 1 ELSE 0
      [] f = "list_after_create" -> IF o.live THEN 0 ELSE 1
      [] f = "list_after_delete" -> IF o.live THEN 1 ELSE 0

\* C20: every gateway call of a worker is about the key that worker put in
\* the iteration it is in: a step of worker w changes no object but that key's,
\* the key it carries from its put to its get and delete is that key, and the
\* violation it counts is the probe's verdict on the gateway's answer about
\* that key.
C20_WorkerTouchesOnlyItsOwnKey ==
    [][ \A w \in DOMAIN wk :
          (wk'[w] # wk[w] /\ ncalls' # ncalls /\ DOMAIN wk' = DOMAIN wk) =>
             /\ \A k \in DOMAIN objects' :
                   (k \notin DOMAIN objects \/ objects'[k] # objects[k])
                       => k = OwnKey(w)
             /\ wk[w].pc > 1 => wk[w].key = OwnKey(w)
             /\ wk'[w].status = "running" => wk'[w].key = OwnKey(w)
             /\ wk'[w].count # wk[w].count =>
                   /\ OwnKey(w) \in DOMAIN objects
                   /\ wk'[w].count = wk[w].count + Verdict(fn, View(objects[OwnKey(w)]))
                   /\ Verdict(fn, View(objects[OwnKey(w)])) = 1
      ]_vars

C20_Witness ==
    /\ Len(wk) = 2
    /\ wk[1].status = "running" /\ wk[2].status = "running"
    /\ wk[1].pc > 1 /\ wk[2].pc > 1
    /\ wk[1].key = OwnKey(1) /\ wk[2].key = OwnKey(2)
    /\ {OwnKey(1), OwnKey(2)} \subseteq Live
    /\ wk[1].i = 1 /\ wk[2].count = 1

====
